---- MODULE Spec2Model ----
(***************************************************************************)
(* A model of the Trac XML-RPC client library (src/src/lib.rs).            *)
(*                                                                         *)
(* The library is a set of synchronous handlers over one remote server.   *)
(* Every handler is one action.  The server is the environment: for each  *)
(* remote call it either fails at the transport level or answers with a   *)
(* dynamically typed value.  A Rust panic (unwrap/expect/missing map key) *)
(* aborts the program; it is the outcome "panic", after which no handler  *)
(* runs.                                                                   *)
(***************************************************************************)
EXTENDS Integers, Sequences, FiniteSets, TLC

VARIABLES
    config,   \* the Connection Context (TracConfig + TracUser)
    ticket,   \* the caller's Ticket Record, None before the first get
    lastOp,   \* the handler that ran last, with its arguments
    calls,    \* the remote calls the last handler issued, in issue order
    resp,     \* the server's answer to the last read call
    ret       \* what the last handler returned to its caller

vars == <<config, ticket, lastOp, calls, resp, ret>>

(***************************************************************************)
(* Bounds                                                                  *)
(***************************************************************************)
MaxFields == 2     \* longest ticket.getTicketFields response array
MaxActions == 2    \* longest ticket.getActions response array
MaxAttrs == 2      \* most keys in a ticket.get attribute struct
MaxOptions == 2    \* longest options array of a field entry

(***************************************************************************)
(* Option and Result values                                                *)
(***************************************************************************)
None == [some |-> FALSE]
Some(x) == [some |-> TRUE, v |-> x]

Ok(x) == [kind |-> "ok", val |-> x]
Err == [kind |-> "err"]
Panic == [kind |-> "panic"]
NotCalled == [kind |-> "none"]

(***************************************************************************)
(* xmlrpc::Value, the dynamically typed RPC value                          *)
(***************************************************************************)
VStr(s) == [kind |-> "string", s |-> s]
VInt(i) == [kind |-> "int", i |-> i]
VArr(a) == [kind |-> "array", a |-> a]
VStruct(m) == [kind |-> "struct", m |-> m]
VNil == [kind |-> "nil"]

\* Value's Index<usize>: the element, or Nil when there is none
ValueAt(v, i) ==
    IF v.kind = "array" /\ i + 1 <= Len(v.a) THEN v.a[i + 1] ELSE VNil

\* a server answer: a transport/protocol failure or a value
TransportError == [ok |-> FALSE]
Answer(v) == [ok |-> TRUE, val |-> v]

(***************************************************************************)
(* Connection Context                                                      *)
(***************************************************************************)
Configs ==
    { [user |-> [username |-> "dev", password |-> "pw"],
       host |-> h, path |-> "/trac/"] : h \in {"trac.example.org", "localhost"} }

\* Trac::url
TracUrl(conf) == "https://" \o conf.host \o conf.path

\* Trac::get_transport: a fresh authenticated request handle per call
get_transport(conf) ==
    [url |-> TracUrl(conf) \o "login/xmlrpc",
     auth |-> <<conf.user.username, conf.user.password>>]

(***************************************************************************)
(* Decoding helpers                                                        *)
(***************************************************************************)
\* val_to_string: val.as_str().unwrap().to_string()
val_to_string(val) ==
    IF val.kind = "string" THEN Ok(val.s) ELSE Panic

get_val_drops_value(valmap, field) ==
    IF field \in DOMAIN valmap /\ valmap[field].kind = "string"
    THEN Ok("") ELSE
    IF field \in DOMAIN valmap THEN val_to_string(valmap[field]) ELSE Ok("")

\* get_val: the string at `field`, "" when the key is absent
get_val(valmap, field) ==
    IF field \in DOMAIN valmap THEN val_to_string(valmap[field]) ELSE Ok("")

(***************************************************************************)
(* Ticket Record: read path                                                *)
(***************************************************************************)
TicketStringFields ==
    <<"summary", "description", "component", "reporter", "owner", "reviewer",
      "tester", "priority", "milestone", "status", "resolution">>

TrackedKeys == { TicketStringFields[i] : i \in 1..Len(TicketStringFields) }

\* the TracTicket literal built from the decoded parts
MakeTicket(id, f) ==
    [id |-> id,
     summary |-> f["summary"].val,
     description |-> f["description"].val,
     component |-> f["component"].val,
     reporter |-> f["reporter"].val,
     owner |-> f["owner"].val,
     reviewer |-> f["reviewer"].val,
     tester |-> f["tester"].val,
     priority |-> f["priority"].val,
     milestone |-> f["milestone"].val,
     status |-> f["status"].val,
     resolution |-> f["resolution"].val]

\* the Ok(r) arm of TracTicket::get
DecodeTicket(r) ==
    LET r3 == ValueAt(r, 3)
        r0 == ValueAt(r, 0)
    IN  IF r3.kind # "struct" THEN Panic            \* as_struct().unwrap()
        ELSE IF r0.kind # "int" THEN Panic          \* as_i32().unwrap()
        ELSE LET f == [k \in TrackedKeys |-> get_val(r3.m, k)]
             IN  IF \E k \in TrackedKeys : f[k].kind = "panic"
                 THEN Panic
                 ELSE Ok(MakeTicket(r0.i, f))

\* TracTicket::get: one ticket.get call, then decoding
TracTicket_get(id, conf, answer) ==
    [calls |-> << [transport |-> get_transport(conf), method |-> "ticket.get",
                   args |-> <<id>>, ok |-> answer.ok] >>,
     ret |-> IF answer.ok THEN DecodeTicket(answer.val) ELSE Err]

(***************************************************************************)
(* Ticket Record: the advisory actions lookup                              *)
(***************************************************************************)
\* one pushed TracAction: both parts go through val_to_string
DecodeAction(item) ==
    LET n == val_to_string(ValueAt(item, 0))
        d == val_to_string(ValueAt(item, 1))
    IN  IF n.kind = "panic" \/ d.kind = "panic" THEN Panic
        ELSE Ok([name |-> n.val, description |-> d.val])

\* the Ok(r) arm of TracTicket::actions
DecodeActions(r) ==
    IF r.kind # "array" THEN Ok(<<>>)
    ELSE LET items == [i \in 1..Len(r.a) |-> DecodeAction(r.a[i])]
         IN  IF \E i \in 1..Len(r.a) : items[i].kind = "panic"
             THEN Panic
             ELSE Ok([i \in 1..Len(r.a) |-> items[i].val])

\* TracTicket::actions: one ticket.getActions call; a transport error gives vec![]
TracTicket_actions(self, conf, answer) ==
    [calls |-> << [transport |-> get_transport(conf), method |-> "ticket.getActions",
                   args |-> <<self.id>>, ok |-> answer.ok] >>,
     ret |-> IF answer.ok THEN DecodeActions(answer.val) ELSE Ok(<<>>),
     self |-> self]

(***************************************************************************)
(* Ticket Record: mutation / workflow path                                 *)
(***************************************************************************)
\* TracAction::new
TracAction_new(name) == [name |-> name, description |-> ""]

\* BTreeMap::insert
MapInsert(m, k, v) == [x \in (DOMAIN m) \cup {k} |-> IF x = k THEN v ELSE m[x]]

EmptyMap == [x \in {} |-> VNil]

\* the loop filling ticket_attributes from the (key, value) pairs
RECURSIVE InsertAll(_, _)
InsertAll(m, pairs) ==
    IF pairs = <<>> THEN m
    ELSE InsertAll(MapInsert(m, Head(pairs)[1], VStr(Head(pairs)[2])), Tail(pairs))

modify_attributes_updates_self(self, attributes, comment, conf, ok) ==
    [calls |-> << [transport |-> get_transport(conf), method |-> "ticket.update",
                   args |-> <<self.id,
                              IF comment.some THEN comment.v ELSE "",
                              InsertAll(EmptyMap, attributes)>>,
                   ok |-> ok] >>,
     ret |-> IF ok THEN Ok(<<>>) ELSE Err,
     self |-> IF ok /\ \E i \in 1..Len(attributes) : attributes[i][1] = "reviewer"
              THEN [self EXCEPT !.reviewer =
                       attributes[CHOOSE i \in 1..Len(attributes) :
                                      attributes[i][1] = "reviewer"][2]]
              ELSE self]

\* TracTicket::modify_attributes: one ticket.update call (id, comment, mapping);
\* the receiver is borrowed immutably
modify_attributes(self, attributes, comment, conf, ok) ==
    [calls |-> << [transport |-> get_transport(conf), method |-> "ticket.update",
                   args |-> <<self.id,
                              IF comment.some THEN comment.v ELSE "",
                              InsertAll(EmptyMap, attributes)>>,
                   ok |-> ok] >>,
     ret |-> IF ok THEN Ok(<<>>) ELSE Err,
     self |-> self]

\* TracTicket::apply_action
apply_action(self, action, comment, conf, ok) ==
    modify_attributes(self, << <<"action", action.name>> >>, comment, conf, ok)

\* TracTicket::set_reviewer
set_reviewer(self, reviewer, conf, ok) ==
    modify_attributes(self, << <<"reviewer", reviewer>> >>, None, conf, ok)

request_review_short_circuit(self, reviewer, conf, ok1, ok2) ==
    LET first == set_reviewer(self, reviewer, conf, ok1)
        second == apply_action(first.self, TracAction_new("peer_review"),
                               Some("Sent to " \o reviewer \o " for review"), conf, ok2)
    IN  IF first.ret.kind = "err" THEN first
        ELSE [calls |-> first.calls \o second.calls,
              ret |-> second.ret, self |-> second.self]

\* TracTicket::request_review: set_reviewer, its result dropped, then apply_action
request_review(self, reviewer, conf, ok1, ok2) ==
    LET first == set_reviewer(self, reviewer, conf, ok1)
        second == apply_action(first.self, TracAction_new("peer_review"),
                               Some("Sent to " \o reviewer \o " for review"), conf, ok2)
    IN  [calls |-> first.calls \o second.calls,
         ret |-> second.ret, self |-> second.self]

\* TracTicket::review_fail
review_fail(self, reason, conf, ok) ==
    apply_action(self, TracAction_new("reject"), Some(reason), conf, ok)

\* TracTicket::review_pass
review_pass(self, comment, conf, ok) ==
    apply_action(self, TracAction_new("pass_peer_review"), comment, conf, ok)

\* TracTicket::release
release(self, comment, conf, ok) ==
    apply_action(self, TracAction_new("leave"), comment, conf, ok)

accept_swapped(self, estimate, comment, conf, ok) ==
    apply_action(self,
                 TracAction_new(IF estimate THEN "no_estimate_needed" ELSE "accept"),
                 comment, conf, ok)

\* TracTicket::accept
accept(self, estimate, comment, conf, ok) ==
    apply_action(self,
                 TracAction_new(IF estimate THEN "accept" ELSE "no_estimate_needed"),
                 comment, conf, ok)

\* TracTicket::reopen
reopen(self, comment, conf, ok) ==
    apply_action(self, TracAction_new("reopen"), comment, conf, ok)

\* TracTicket::close
close(self, comment, conf, ok) ==
    apply_action(self, TracAction_new("resolve"), comment, conf, ok)

(***************************************************************************)
(* Ticket Field Metadata Reader                                            *)
(***************************************************************************)
FieldTypes == {"DropDown", "String", "Integer", "Text", "Float", "Boolean"}

field_type_text_as_integer(type_label) ==
    CASE type_label = "text" -> Some("Integer")
      [] type_label = "textarea" -> Some("Text")
      [] type_label \in {"select", "radio"} -> Some("DropDown")
      [] type_label = "checkbox" -> Some("Boolean")
      [] OTHER -> None

\* the match on type_label; None stands for the `continue` arm
field_type(type_label) ==
    CASE type_label = "text" -> Some("String")
      [] type_label = "textarea" -> Some("Text")
      [] type_label \in {"select", "radio"} -> Some("DropDown")
      [] type_label = "checkbox" -> Some("Boolean")
      [] OTHER -> None

\* field_default: a non-empty string default, else None
field_default(field_meta) ==
    IF "default" \in DOMAIN field_meta
    THEN LET val == field_meta["default"]
         IN  IF val.kind = "string" /\ val.s # "" THEN Some(val.s) ELSE None
    ELSE None

field_options_lenient(field_meta) ==
    IF "options" \in DOMAIN field_meta
    THEN LET val == field_meta["options"]
         IN  IF val.kind = "array"
             THEN LET strs == SelectSeq(val.a, LAMBDA v : v.kind = "string")
                  IN  Ok(Some([i \in 1..Len(strs) |-> strs[i].s]))
             ELSE Ok(None)
    ELSE Ok(None)

\* field_options: every element of an options array must be a string
\* (as_str().expect(..)); anything but an array gives None
field_options(field_meta) ==
    IF "options" \in DOMAIN field_meta
    THEN LET val == field_meta["options"]
         IN  IF val.kind = "array"
             THEN IF \E i \in 1..Len(val.a) : val.a[i].kind # "string"
                  THEN Panic
                  ELSE Ok(Some([i \in 1..Len(val.a) |-> val.a[i].s]))
             ELSE Ok(None)
    ELSE Ok(None)

Skip == [kind |-> "skip"]

\* the body of the loop over the response array, for one element
DecodeField(field_val) ==
    IF field_val.kind # "struct" THEN Skip
    ELSE LET field_meta == field_val.m IN
         IF "name" \notin DOMAIN field_meta THEN Panic     \* field_meta["name"]
         ELSE IF field_meta["name"].kind # "string" THEN Skip
         ELSE IF "type" \notin DOMAIN field_meta THEN Panic \* field_meta["type"]
         ELSE IF field_meta["type"].kind # "string" THEN Skip
         ELSE LET ft == field_type(field_meta["type"].s) IN
              IF ~ft.some THEN Skip
              ELSE LET opts == field_options(field_meta) IN
                   IF opts.kind = "panic" THEN Panic
                   ELSE Ok([name |-> field_meta["name"].s,
                            field_type |-> ft.v,
                            options |-> opts.val,
                            default |-> field_default(field_meta)])

\* the loop: elements are decoded in order, the first panic aborts
RECURSIVE DecodeFields(_, _)
DecodeFields(result, fields) ==
    IF result = <<>> THEN Ok(fields)
    ELSE LET d == DecodeField(Head(result)) IN
         CASE d.kind = "panic" -> Panic
           [] d.kind = "skip" -> DecodeFields(Tail(result), fields)
           [] OTHER -> DecodeFields(Tail(result), Append(fields, d.val))

\* TracTicketFieldSet::get: one ticket.getTicketFields call, then decoding
TracTicketFieldSet_get(conf, answer) ==
    [calls |-> << [transport |-> get_transport(conf),
                   method |-> "ticket.getTicketFields",
                   args |-> <<>>, ok |-> answer.ok] >>,
     ret |-> IF ~answer.ok THEN Err
             ELSE IF answer.val.kind # "array" THEN Panic   \* as_array().expect(..)
             ELSE DecodeFields(answer.val.a, <<>>)]

\* Trac::get_ticket
Trac_get_ticket(id, conf, answer) == TracTicket_get(id, conf, answer)

(***************************************************************************)
(* Inputs: caller arguments and server answers                             *)
(***************************************************************************)
Ids == {42, 7}
Reviewers == {"alice", "bob"}
Comments == {None, Some(""), Some("lgtm")}
Reasons == {"", "broken"}

Unasked == [kind |-> "unasked"]

\* sequences over S of length at most n
SeqUpTo(S, n) == UNION { [1..k -> S] : k \in 0..n }

FullAttrs == [k \in TrackedKeys |-> VStr(k)]

TicketResponse(r0, r3) == VArr(<<r0, VInt(0), VInt(0), r3>>)

\* ticket.get answers used between workflow calls
SmallGetAnswers(id) ==
    { Answer(TicketResponse(VInt(id), VStruct(FullAttrs))),
      Answer(TicketResponse(VInt(id), VStruct(EmptyMap))),
      Answer(TicketResponse(VInt(id), VStruct([reviewer |-> VStr("bob"), status |-> VStr("new")]))),
      Answer(VStr("fault")),
      TransportError }

\* ticket.get answers for the decoding check
AttrKeys == TrackedKeys \cup {"keywords"}
AttrValues == {VStr("x"), VStr("y"), VInt(5)}
AttrStructs ==
    { VStruct(m) : m \in UNION { [S -> AttrValues] :
                      S \in { T \in SUBSET AttrKeys : Cardinality(T) <= MaxAttrs } } }
        \cup {VStruct(FullAttrs)}
GetAnswers ==
    { Answer(TicketResponse(r0, r3)) :
          r0 \in {VInt(42), VInt(7), VStr("42")}, r3 \in AttrStructs \cup {VStr("oops")} }
        \cup { Answer(VArr(<<VInt(42)>>)), Answer(VStr("fault")), TransportError }

\* ticket.getActions answers
ActionItems ==
    { VArr(<<VStr("accept"), VStr("Accept the ticket")>>),
      VArr(<<VStr("leave"), VStr("")>>),
      VArr(<<VInt(1), VStr("numbered")>>),
      VArr(<<VStr("resolve"), VNil>>),
      VArr(<<VStr("reopen")>>),
      VStr("reject") }
ActionsAnswers ==
    { Answer(VArr(a)) : a \in SeqUpTo(ActionItems, MaxActions) }
        \cup { Answer(VStr("fault")), Answer(VStruct(EmptyMap)), TransportError }

\* ticket.getTicketFields answers
Present(k, vs) == { [x \in {k} |-> v] : v \in vs }
Absent == { EmptyMap }
Merge(f, g) == [x \in (DOMAIN f) \cup (DOMAIN g) |-> IF x \in DOMAIN f THEN f[x] ELSE g[x]]
TypeLabels == {"text", "textarea", "select", "radio", "checkbox", "multi"}
OptionArrays == { VArr(a) : a \in SeqUpTo({VStr("a"), VStr("b"), VInt(3)}, MaxOptions) }
Keywords == [name |-> VStr("keywords"), type |-> VStr("select")]
FieldElems ==
    { VStruct(Merge(n, t)) :
          n \in Absent \cup Present("name", {VStr("status"), VInt(1)}),
          t \in Absent \cup Present("type", {VStr(l) : l \in TypeLabels} \cup {VInt(7)}) }
      \cup { VStruct(Merge(Keywords, d)) :
                d \in Present("default", {VStr(""), VStr("foo"), VInt(0)}) }
      \cup { VStruct(Merge(Keywords, o)) :
                o \in Present("options", OptionArrays \cup {VStr("a")}) }
      \cup { VStruct([name |-> VStr("keywords"), type |-> VStr("radio"),
                      default |-> VStr("a"), options |-> VArr(<<VStr("a"), VStr("b")>>)]),
             VStruct([name |-> VStr("keywords"), type |-> VStr("multi"),
                      options |-> VArr(<<VInt(3)>>)]),
             VStr("junk") }
FieldsAnswers ==
    { Answer(VArr(a)) : a \in SeqUpTo(FieldElems, MaxFields) }
        \cup { Answer(VStr("fault")), TransportError }

(***************************************************************************)
(* The state machine                                                       *)
(***************************************************************************)
Alive == ret.kind # "panic"

Init ==
    /\ config \in Configs
    /\ ticket = None
    /\ lastOp = [name |-> "new"]
    /\ calls = <<>>
    /\ resp = Unasked
    /\ ret = NotCalled

\* a handler on the Ticket Record ran: `res` is what it did
Ran(op, res, answer) ==
    /\ lastOp' = op
    /\ calls' = res.calls
    /\ ret' = res.ret
    /\ resp' = answer
    /\ ticket' = Some(res.self)
    /\ UNCHANGED config

GetTicket(id, answer) ==
    /\ Alive
    /\ LET res == Trac_get_ticket(id, config, answer) IN
         /\ lastOp' = [name |-> "get_ticket", id |-> id]
         /\ calls' = res.calls
         /\ ret' = res.ret
         /\ resp' = answer
         /\ ticket' = IF res.ret.kind = "ok" THEN Some(res.ret.val) ELSE ticket
    /\ UNCHANGED config

Actions ==
    /\ Alive /\ ticket.some
    /\ \E answer \in ActionsAnswers :
         Ran([name |-> "actions"], TracTicket_actions(ticket.v, config, answer), answer)

SetReviewer ==
    /\ Alive /\ ticket.some
    /\ \E n \in Reviewers, ok \in BOOLEAN :
         Ran([name |-> "set_reviewer", reviewer |-> n],
             set_reviewer(ticket.v, n, config, ok), Unasked)

RequestReview ==
    /\ Alive /\ ticket.some
    /\ \E n \in Reviewers, ok1 \in BOOLEAN, ok2 \in BOOLEAN :
         Ran([name |-> "request_review", reviewer |-> n],
             request_review(ticket.v, n, config, ok1, ok2), Unasked)

ReviewFail ==
    /\ Alive /\ ticket.some
    /\ \E reason \in Reasons, ok \in BOOLEAN :
         Ran([name |-> "review_fail", comment |-> Some(reason)],
             review_fail(ticket.v, reason, config, ok), Unasked)

ReviewPass ==
    /\ Alive /\ ticket.some
    /\ \E c \in Comments, ok \in BOOLEAN :
         Ran([name |-> "review_pass", comment |-> c],
             review_pass(ticket.v, c, config, ok), Unasked)

Release ==
    /\ Alive /\ ticket.some
    /\ \E c \in Comments, ok \in BOOLEAN :
         Ran([name |-> "release", comment |-> c],
             release(ticket.v, c, config, ok), Unasked)

Accept ==
    /\ Alive /\ ticket.some
    /\ \E e \in BOOLEAN, c \in Comments, ok \in BOOLEAN :
         Ran([name |-> "accept", estimate |-> e, comment |-> c],
             accept(ticket.v, e, c, config, ok), Unasked)

Reopen ==
    /\ Alive /\ ticket.some
    /\ \E c \in Comments, ok \in BOOLEAN :
         Ran([name |-> "reopen", comment |-> c],
             reopen(ticket.v, c, config, ok), Unasked)

Close ==
    /\ Alive /\ ticket.some
    /\ \E c \in Comments, ok \in BOOLEAN :
         Ran([name |-> "close", comment |-> c],
             close(ticket.v, c, config, ok), Unasked)

Get == \E id \in Ids : \E answer \in SmallGetAnswers(id) : GetTicket(id, answer)

Next ==
    \/ Get
    \/ Actions
    \/ SetReviewer
    \/ RequestReview
    \/ ReviewFail
    \/ ReviewPass
    \/ Release
    \/ Accept
    \/ Reopen
    \/ Close

Spec == Init /\ [][Next]_vars

(***************************************************************************)
(* Decoding a ticket.get answer: the answer is drawn first, then get runs  *)
(***************************************************************************)
InitGet ==
    /\ config \in Configs
    /\ ticket = None
    /\ lastOp = [name |-> "new"]
    /\ calls = <<>>
    /\ resp \in GetAnswers
    /\ ret = NotCalled

NextGet == lastOp.name = "new" /\ \E id \in Ids : GetTicket(id, resp)

SpecGet == InitGet /\ [][NextGet]_vars

(***************************************************************************)
(* Decoding a ticket.getTicketFields answer                                *)
(***************************************************************************)
InitFields ==
    /\ config \in Configs
    /\ ticket = None
    /\ lastOp = [name |-> "new"]
    /\ calls = <<>>
    /\ resp \in FieldsAnswers
    /\ ret = NotCalled

ListFields ==
    /\ lastOp.name = "new"
    /\ LET res == TracTicketFieldSet_get(config, resp) IN
         /\ lastOp' = [name |-> "list_fields"]
         /\ calls' = res.calls
         /\ ret' = res.ret
    /\ UNCHANGED <<config, ticket, resp>>

NextFields == ListFields

SpecFields == InitFields /\ [][NextFields]_vars

(***************************************************************************)
(* Properties                                                              *)
(***************************************************************************)
SingleCallOps ==
    {"set_reviewer", "review_fail", "review_pass", "release", "accept", "reopen", "close"}
MutationOps == SingleCallOps \cup {"request_review"}

IsUpdate(call, id, comment, attrs) ==
    /\ call.method = "ticket.update"
    /\ call.args = <<id, comment, attrs>>

ReviewComment == [alice |-> "Sent to alice for review", bob |-> "Sent to bob for review"]

\* C1: requestReview(n) issues exactly two ticket.update calls whatever the
\* first one's outcome: first (id, "", {reviewer: n}), then
\* (id, "Sent to n for review", {action: "peer_review"}).
C1_RequestReviewTwoCalls ==
    lastOp.name = "request_review" =>
        /\ Len(calls) = 2
        /\ IsUpdate(calls[1], ticket.v.id, "", [reviewer |-> VStr(lastOp.reviewer)])
        /\ IsUpdate(calls[2], ticket.v.id, ReviewComment[lastOp.reviewer],
                    [action |-> VStr("peer_review")])

C1_Witness ==
    /\ lastOp.name = "request_review"
    /\ lastOp.reviewer = "alice"
    /\ Len(calls) = 2
    /\ ~calls[1].ok
    /\ calls[2].ok

\* C2: a mutation operation returns an error whenever any ticket.update call
\* it issued failed, and success only if every call succeeded.
C2_ErrorSurfaced ==
    lastOp.name \in MutationOps =>
        /\ (\E i \in 1..Len(calls) : ~calls[i].ok) => ret.kind = "err"
        /\ ret.kind = "ok" => \A i \in 1..Len(calls) : calls[i].ok

ExpectedAction ==
    CASE lastOp.name = "review_fail" -> "reject"
      [] lastOp.name = "review_pass" -> "pass_peer_review"
      [] lastOp.name = "release" -> "leave"
      [] lastOp.name = "accept" /\ lastOp.estimate -> "accept"
      [] lastOp.name = "accept" /\ ~lastOp.estimate -> "no_estimate_needed"
      [] lastOp.name = "reopen" -> "reopen"
      [] lastOp.name = "close" -> "resolve"

\* C3: each single-step workflow operation issues exactly one ticket.update
\* call (id, comment or "", {action: a}) with its own action identifier;
\* setReviewer(n) issues exactly one with (id, "", {reviewer: n}).
C3_OneUpdateCall ==
    lastOp.name \in SingleCallOps =>
        /\ Len(calls) = 1
        /\ IF lastOp.name = "set_reviewer"
           THEN IsUpdate(calls[1], ticket.v.id, "", [reviewer |-> VStr(lastOp.reviewer)])
           ELSE IsUpdate(calls[1], ticket.v.id,
                         IF lastOp.comment.some THEN lastOp.comment.v ELSE "",
                         [action |-> VStr(ExpectedAction)])

C3_Witness ==
    /\ lastOp.name = "accept"
    /\ ~lastOp.estimate
    /\ ~lastOp.comment.some
    /\ Len(calls) = 1

\* C4: the actions lookup returns normally for every outcome of the
\* ticket.getActions call, and with an empty sequence on any error
\* (transport error, non-array response, element that is not two strings).
IsActionPair(item) ==
    /\ item.kind = "array"
    /\ Len(item.a) >= 2
    /\ item.a[1].kind = "string"
    /\ item.a[2].kind = "string"

ActionsError ==
    \/ ~resp.ok
    \/ resp.val.kind # "array"
    \/ \E i \in 1..Len(resp.val.a) : ~IsActionPair(resp.val.a[i])

C4_ActionsNeverFails ==
    lastOp.name = "actions" =>
        /\ ret.kind = "ok"
        /\ ActionsError => ret.val = <<>>

\* C8: no call on a Ticket Record changes the record or the Connection
\* Context, whatever the outcome of its remote calls.
C8_SnapshotUnchanged ==
    [][lastOp'.name \in MutationOps \cup {"actions"} =>
          ticket' = ticket /\ config' = config]_vars

C8_Witness ==
    /\ lastOp.name = "request_review"
    /\ ret.kind = "ok"
    /\ \A i \in 1..Len(calls) : calls[i].ok
    /\ ticket.v.reviewer # lastOp.reviewer

\* the parts of a ticket.get answer
GotArray == resp.ok /\ resp.val.kind = "array"
R0 == ValueAt(resp.val, 0)
R3 == ValueAt(resp.val, 3)

GetMalformed ==
    \/ ~resp.ok
    \/ R0.kind # "int"
    \/ R3.kind # "struct"
    \/ \E k \in TrackedKeys : k \in DOMAIN R3.m /\ R3.m[k].kind # "string"

\* C6: get returns a Ticket Record or an Error: a transport failure, a
\* non-integer index 0, a non-struct index 3 and a tracked attribute that is
\* not a string each yield an Error, never a record and never an abort.
C6_GetReturnsRecordOrError ==
    lastOp.name = "get_ticket" =>
        /\ ret.kind \in {"ok", "err"}
        /\ GetMalformed => ret.kind = "err"

\* C7: a successful get yields the id at response index 0 and, for each of
\* the eleven tracked keys, the string stored under it in the struct at
\* index 3, or "" when the struct has no such key.
C7_GetDecodesAttributes ==
    (lastOp.name = "get_ticket" /\ ret.kind = "ok") =>
        /\ GotArray /\ R0.kind = "int" /\ R3.kind = "struct"
        /\ ret.val.id = R0.i
        /\ DOMAIN ret.val = TrackedKeys \cup {"id"}
        /\ \A k \in TrackedKeys :
              ret.val[k] = IF k \in DOMAIN R3.m THEN R3.m[k].s ELSE ""
        /\ ticket = Some(ret.val)

C7_Witness ==
    /\ lastOp.name = "get_ticket"
    /\ ret.kind = "ok"
    /\ ret.val.id = 42
    /\ ret.val.summary = "x"
    /\ ret.val.owner = "y"
    /\ \A k \in TrackedKeys \ {"summary", "owner"} : ret.val[k] = "" /\ k \notin DOMAIN R3.m

\* the elements of a ticket.getTicketFields answer that are well formed
RecognizedLabels == {"text", "textarea", "select", "radio", "checkbox"}

WellFormed(e) ==
    /\ e.kind = "struct"
    /\ "name" \in DOMAIN e.m /\ e.m["name"].kind = "string"
    /\ "type" \in DOMAIN e.m /\ e.m["type"].kind = "string"
    /\ e.m["type"].s \in RecognizedLabels

HasOptionsArray(e) == "options" \in DOMAIN e.m /\ e.m["options"].kind = "array"

BadOptions(e) ==
    /\ HasOptionsArray(e)
    /\ \E i \in 1..Len(e.m["options"].a) : e.m["options"].a[i].kind # "string"

GotFieldsArray == lastOp.name = "list_fields" /\ resp.ok /\ resp.val.kind = "array"
WellFormedElems == SelectSeq(resp.val.a, WellFormed)

\* C5: for an array answer, an element that is not a struct, lacks name or
\* type, has a non-string name or type, or has an unrecognized type is
\* skipped: listFields does not fail and returns exactly the well-formed
\* elements in response order.
C5_MalformedElementsSkipped ==
    (GotFieldsArray /\ \A i \in 1..Len(WellFormedElems) : ~BadOptions(WellFormedElems[i])) =>
        /\ ret.kind = "ok"
        /\ Len(ret.val) = Len(WellFormedElems)
        /\ \A i \in 1..Len(WellFormedElems) :
              ret.val[i].name = WellFormedElems[i].m["name"].s

\* C9: a decoded entry has options = Some(the options array's strings, in
\* order) when options is an array of strings and None when it is absent or
\* not an array; an options array with a non-string element makes the whole
\* read fail, returning no field sequence.
C9_OptionsDecoded ==
    GotFieldsArray =>
        /\ (\E i \in 1..Len(WellFormedElems) : BadOptions(WellFormedElems[i]))
              => ret.kind # "ok"
        /\ ret.kind = "ok" =>
              /\ Len(ret.val) = Len(WellFormedElems)
              /\ \A i \in 1..Len(WellFormedElems) :
                    LET e == WellFormedElems[i] IN
                    IF HasOptionsArray(e)
                    THEN /\ ret.val[i].options.some
                         /\ Len(ret.val[i].options.v) = Len(e.m["options"].a)
                         /\ \A j \in 1..Len(e.m["options"].a) :
                               VStr(ret.val[i].options.v[j]) = e.m["options"].a[j]
                    ELSE ret.val[i].options = None

C9_Witness ==
    /\ GotFieldsArray
    /\ ret.kind = "ok"
    /\ Len(ret.val) = 2
    /\ ret.val[1].options = Some(<<"b", "a">>)
    /\ ret.val[2].options = None
    /\ "options" \in DOMAIN WellFormedElems[2].m

ExpectedType ==
    [text |-> "String", textarea |-> "Text", select |-> "DropDown",
     radio |-> "DropDown", checkbox |-> "Boolean"]

\* C10: every returned Field Descriptor has the type its server label
\* dictates (text String, textarea Text, select and radio DropDown, checkbox
\* Boolean), so none has type Integer or Float.
C10_TypeFromLabel ==
    (GotFieldsArray /\ ret.kind = "ok") =>
        /\ Len(ret.val) = Len(WellFormedElems)
        /\ \A i \in 1..Len(ret.val) :
              /\ ret.val[i].field_type = ExpectedType[WellFormedElems[i].m["type"].s]
              /\ ret.val[i].field_type \notin {"Integer", "Float"}

C10_Witness ==
    /\ GotFieldsArray
    /\ ret.kind = "ok"
    /\ Len(ret.val) = 2
    /\ ret.val[1].field_type = "String"
    /\ ret.val[2].field_type = "Boolean"

====
